---- MODULE Spec2Model ----
(***************************************************************************)
(* Inverted-index build pipeline and query run of boyanxu/Inverted-Index.  *)
(*                                                                         *)
(* src/src/disk_io.rs : process_gzip_file, write_to_disk,                  *)
(*                      write_lexicon_to_disk, merge_sorted_postings       *)
(* src/src/main.rs    : cleanup_postings_data_folder, main                 *)
(*                                                                         *)
(* The modules indexer, external_sorter, bin_indexer, term_query_processor *)
(* and utils are used by these files but are not part of the available     *)
(* source; their operations are modelled from the design document          *)
(* (sections 4.1 to 4.4) and are marked as such where they are defined.    *)
(***************************************************************************)
EXTENDS Integers, Sequences, FiniteSets, TLC

\* ------------------------------------------------------------------ bounds

\* Longest input, in lines.
MaxLines == 3

\* Runs of the program over the same input file.
MaxBuilds == 2

\* utils::BATCH_SIZE, documents per spill (disk_io.rs:16 imports it).
BATCH_SIZE == 2

\* utils::DEBUG_DOC_LIMIT (disk_io.rs:43).
DEBUG_DOC_LIMIT == 1

\* The terms the tokenizer can produce; NoTerm is a line without any term.
Terms == {"a", "b"}

NoTerm == "-"

\* A term that no document contains (a query for it is a lexicon miss).
Unknown == "zz"

\* A line of the decompressed corpus: the term it carries, and whether it
\* contains the closing tag "</DOC>".
Lines == [term : Terms \cup {NoTerm}, close : BOOLEAN]

RECURSIVE SeqsUpTo(_, _)
SeqsUpTo(S, n) ==
    IF n = 0 THEN {<<>>}
    ELSE LET shorter == SeqsUpTo(S, n - 1)
         IN shorter \cup {Append(s, x) : s \in {t \in shorter : Len(t) = n - 1}, x \in S}

Corpora == SeqsUpTo(Lines, MaxLines)

\* ------------------------------------------------------------- map helpers

EmptyMap == [x \in {} |-> 0]

MapPut(m, k, v) == [x \in DOMAIN m \cup {k} |-> IF x = k THEN v ELSE m[x]]

\* The (key, value) entries of a hash map.
Entries(m) == {<<k, m[k]>> : k \in DOMAIN m}

RECURSIVE Perms(_)
Perms(S) ==
    IF S = {} THEN {<<>>}
    ELSE UNION {{<<x>> \o p : p \in Perms(S \ {x})} : x \in S}

\* HashMap::iter yields the entries in an arbitrary order: any permutation.
IterOrders(m) == Perms(Entries(m))

Range(s) == {s[i] : i \in 1..Len(s)}

\* ----------------------------------------------------------------- indexer

\* Indexer::new: empty accumulator, empty lexicon, document ids from 0.
NewIndexer == [postings |-> EmptyMap, lexicon |-> EmptyMap, next_doc |-> 0]

\* The terms of a document, in text order (the external tokenizer).
Tokenize(doc) == [i \in 1..Len(SelectSeq(doc, LAMBDA l : l.term # NoTerm))
                    |-> SelectSeq(doc, LAMBDA l : l.term # NoTerm)[i].term]

\* One occurrence of term in document d: the term gets the next free token id
\* when it is new, and the posting (d, frequency) is created or incremented.
AddToken(ix, term, d) ==
    LET tid   == IF term \in DOMAIN ix.lexicon THEN ix.lexicon[term]
                 ELSE Cardinality(DOMAIN ix.lexicon)
        inner == IF tid \in DOMAIN ix.postings THEN ix.postings[tid] ELSE EmptyMap
        freq  == IF d \in DOMAIN inner THEN inner[d] + 1 ELSE 1
    IN [ix EXCEPT !.lexicon  = MapPut(ix.lexicon, term, tid),
                  !.postings = MapPut(ix.postings, tid, MapPut(inner, d, freq))]

RECURSIVE FoldTokens(_, _, _)
FoldTokens(ix, toks, d) ==
    IF toks = <<>> THEN ix
    ELSE FoldTokens(AddToken(ix, Head(toks), d), Tail(toks), d)

\* Indexer::process_document: the document gets the next document id and its
\* term frequencies are folded into the accumulator.
ProcessDocument(ix, doc) ==
    [FoldTokens(ix, Tokenize(doc), ix.next_doc) EXCEPT !.next_doc = ix.next_doc + 1]

\* ------------------------------------------------------------- write_to_disk

RECURSIVE InsertByKey(_, _)
InsertByKey(s, e) ==
    IF s = <<>> THEN <<e>>
    ELSE IF e[1] < Head(s)[1] THEN <<e>> \o s
    ELSE <<Head(s)>> \o InsertByKey(Tail(s), e)

\* Vec::sort_by_key on the first component (a stable sort).
RECURSIVE SortByKey(_)
SortByKey(s) ==
    IF s = <<>> THEN <<>>
    ELSE InsertByKey(SortByKey(SubSeq(s, 1, Len(s) - 1)), s[Len(s)])

\* A plausible slip: the collected entries are written as the map yields them.
SortedPostingsNoSort(iter) == iter

\* sorted_postings: the entries as postings.iter() yielded them (iter), sorted
\* by token id.
SortedPostings(iter) == SortByKey(iter)

\* bincode::serialize / serde_json::to_string of Vec<(&u32, &HashMap<usize,u32>)>:
\* the records in vector order, each inner map written in the order its own
\* iterator yields, which is arbitrary.  The set of byte strings it can produce.
RECURSIVE Serializations(_)
Serializations(sorted) ==
    IF sorted = <<>> THEN {<<>>}
    ELSE {<<<<Head(sorted)[1], inner>>>> \o rest :
            inner \in IterOrders(Head(sorted)[2]),
            rest \in Serializations(Tail(sorted))}

\* What the file system can answer to write_to_disk.
IoOutcomes == {"ok", "mkdir_fail", "create_fail", "write_fail"}

\* A spill file: name is the timestamp in its file name, recs its content.
\* intact is FALSE for a file whose write failed part-way.  docs, tokens,
\* build and cause record where the file came from; no operation reads them.
SpillFile(clk, ser, intact, docs, toks, bld, cause) ==
    [name |-> clk, recs |-> ser, intact |-> intact,
     docs |-> docs, tokens |-> toks, build |-> bld, cause |-> cause]

\* write_to_disk on spill directory sp at time clk; ser is the serialized
\* vector.  Every failure is an expect(): the process panics.
WriteToDisk(sp, clk, ser, io, docs, toks, bld, cause) ==
    CASE io = "mkdir_fail" /\ ~sp.exists ->
            [spill |-> sp, panic |-> TRUE]
      [] io = "create_fail" ->
            [spill |-> [sp EXCEPT !.exists = TRUE], panic |-> TRUE]
      [] io = "write_fail" ->
            [spill |-> [exists |-> TRUE,
                        files  |-> sp.files \cup
                                   {SpillFile(clk, <<>>, FALSE, docs, toks, bld, cause)}],
             panic |-> TRUE]
      [] OTHER ->
            [spill |-> [exists |-> TRUE,
                        files  |-> sp.files \cup
                                   {SpillFile(clk, ser, TRUE, docs, toks, bld, cause)}],
             panic |-> FALSE]

\* Indexer::dump_postings_to_disk: write_to_disk(&postings), then the
\* accumulator is cleared (design 4.1: flush clears the in-memory state).
DumpPostings(ix, acc, sp, clk, ser, io, bld, cause) ==
    LET w == WriteToDisk(sp, clk, ser, io, acc, DOMAIN ix.postings, bld, cause)
    IN [indexer  |-> IF w.panic THEN ix ELSE [ix EXCEPT !.postings = EmptyMap],
        acc_docs |-> IF w.panic THEN acc ELSE {},
        spill    |-> w.spill,
        panic    |-> w.panic]

\* String order on the terms (sorted_terms.sort()).
TermOrder == <<"a", "b">>

\* write_lexicon_to_disk: the (term, id) pairs sorted by term.
WriteLexicon(lexicon) ==
    LET sorted_terms == SelectSeq(TermOrder, LAMBDA t : t \in DOMAIN lexicon)
    IN [i \in 1..Len(sorted_terms) |-> <<sorted_terms[i], lexicon[sorted_terms[i]]>>]

Absent == [present |-> FALSE, content |-> <<>>]

Present(c) == [present |-> TRUE, content |-> c]

\* ------------------------------------------------------------------- state

VARIABLES
    pc,           \* where main is: cleanup, open, loop, tail, merge, binindex,
                  \*   query, done, panicked
    build,        \* number of this run of the program
    corpus,       \* the lines of data/msmarco-docs.trec.gz
    debug_mode,   \* utils::DEBUG_MODE
    pos,          \* lines consumed from the reader
    current_doc,  \* process_gzip_file's current_doc
    doc_count,    \* process_gzip_file's doc_count
    indexer,      \* process_gzip_file's indexer
    acc_docs,     \* ids of the documents folded into the accumulator since
                  \*   it was last cleared
    spill,        \* directory postings_data: [exists, files]
    clock,        \* Utc::now(), taken to differ between any two writes
    data,         \* directory data: lexicon, merged postings, binary index
    res,          \* what each phase of this run returned
    listing,      \* what this run's merge saw: the spill files of the
                  \*   directory, and the ones it handed to the merge in order
    answer,       \* the conjunctive query of this run and its result
    first         \* the artifacts the first build without any error left

vars == <<pc, build, corpus, debug_mode, pos, current_doc, doc_count, indexer,
          acc_docs, spill, clock, data, res, listing, answer, first>>

\* cleanup, process, merge, binindex: "none" until the call ended, then "Ok" or
\* "Err", the value it returned, or "panic" when it unwound.  flush: how the
\* last write_to_disk of the run ended, "ok" or "failed".
NoRes == [cleanup |-> "none", process |-> "none", merge |-> "none",
          binindex |-> "none", flush |-> "none"]

NoListing == [seen |-> {}, passed |-> <<>>, done |-> FALSE]

NoAnswer == [asked |-> <<>>, docs |-> <<>>, outcome |-> "none"]

NoFirst == [present |-> FALSE, lexicon |-> <<>>, index |-> <<>>]

Init ==
    /\ pc = "cleanup"
    /\ build = 1
    /\ corpus \in Corpora
    /\ debug_mode \in BOOLEAN
    /\ pos = 0
    /\ current_doc = <<>>
    /\ doc_count = 0
    /\ indexer = NewIndexer
    /\ acc_docs = {}
    /\ spill = [exists |-> FALSE, files |-> {}]
    /\ clock = 0
    /\ data = [lexicon |-> Absent, merged |-> Absent, index |-> Absent]
    /\ res = NoRes
    /\ listing = NoListing
    /\ answer = NoAnswer
    /\ first = NoFirst

\* ------------------------------------------------- main: cleanup (28 to 30)

\* cleanup_postings_data_folder: remove_dir_all when the directory exists.  A
\* failed removal may have deleted any part of the content; main prints the
\* error and goes on.
Cleanup ==
    /\ pc = "cleanup"
    /\ IF ~spill.exists
       THEN /\ res' = [res EXCEPT !.cleanup = "Ok"]
            /\ UNCHANGED spill
       ELSE \E removed \in BOOLEAN, left \in SUBSET spill.files :
              IF removed
              THEN /\ left = {}
                   /\ spill' = [exists |-> FALSE, files |-> {}]
                   /\ res' = [res EXCEPT !.cleanup = "Ok"]
              ELSE /\ spill' = [exists |-> TRUE, files |-> left]
                   /\ res' = [res EXCEPT !.cleanup = "Err"]
    /\ pc' = "open"
    /\ UNCHANGED <<build, corpus, debug_mode, pos, current_doc, doc_count,
                   indexer, acc_docs, clock, data, listing, answer, first>>

\* --------------------------------------------- process_gzip_file (18 to 59)

\* Lines 19 to 23: open the archive (an error returns Err to main, which
\* prints it and goes on to the merge), create the indexer and the counters.
Open ==
    /\ pc = "open"
    /\ \E opened \in BOOLEAN :
         IF opened
         THEN /\ pc' = "loop"
              /\ UNCHANGED res
         ELSE /\ pc' = "merge"
              /\ res' = [res EXCEPT !.process = "Err"]
    /\ indexer' = NewIndexer
    /\ acc_docs' = {}
    /\ current_doc' = <<>>
    /\ doc_count' = 0
    /\ pos' = 0
    /\ UNCHANGED <<build, corpus, debug_mode, spill, clock, data, listing,
                   answer, first>>

\* A plausible slip: the first full batch is let through.
ShouldFlushLate(count) == count % BATCH_SIZE = 0 /\ count > BATCH_SIZE

\* Line 35: the batch size is reached.
ShouldFlush(count) == count % BATCH_SIZE = 0

\* Lines 25 to 46: one iteration of the loop over reader.lines().
ReadLine ==
    /\ pc = "loop"
    /\ pos < Len(corpus)
    /\ \E read_ok \in BOOLEAN :
         IF ~read_ok
         THEN \* line? returns the read error
              /\ pc' = "merge"
              /\ res' = [res EXCEPT !.process = "Err"]
              /\ UNCHANGED <<pos, current_doc, doc_count, indexer, acc_docs,
                             spill, clock>>
         ELSE
           LET line == corpus[pos + 1]
               doc  == Append(current_doc, line)
               ix1  == ProcessDocument(indexer, doc)
               acc1 == acc_docs \cup {indexer.next_doc}
               dc   == doc_count + 1
               next_pc(count) ==
                   IF debug_mode /\ count > DEBUG_DOC_LIMIT THEN "tail" ELSE "loop"
           IN /\ pos' = pos + 1
              /\ IF ~line.close
                 THEN /\ current_doc' = doc
                      /\ pc' = next_pc(doc_count)
                      /\ UNCHANGED <<doc_count, indexer, acc_docs, spill, clock, res>>
                 ELSE IF ~ShouldFlush(dc)
                 THEN /\ current_doc' = <<>>
                      /\ doc_count' = dc
                      /\ indexer' = ix1
                      /\ acc_docs' = acc1
                      /\ pc' = next_pc(dc)
                      /\ UNCHANGED <<spill, clock, res>>
                 ELSE \E io \in IoOutcomes, iter \in IterOrders(ix1.postings) :
                      \E ser \in Serializations(SortedPostings(iter)) :
                        LET d == DumpPostings(ix1, acc1, spill, clock, ser, io,
                                              build, "threshold")
                        IN /\ indexer' = d.indexer
                           /\ acc_docs' = d.acc_docs
                           /\ spill' = d.spill
                           /\ clock' = clock + 1
                           /\ doc_count' = dc
                           /\ current_doc' = IF d.panic THEN doc ELSE <<>>
                           /\ pc' = IF d.panic THEN "panicked" ELSE next_pc(dc)
                           /\ res' = IF d.panic
                                     THEN [res EXCEPT !.flush = "failed", !.process = "panic"]
                                     ELSE [res EXCEPT !.flush = "ok"]
    /\ UNCHANGED <<build, corpus, debug_mode, data, listing, answer, first>>

\* What the file system can answer to the two writes that end the phase.
TailOutcomes == {"ok", "lexicon_fail", "metadata_fail"}

\* Lines 48 to 58, after the loop ended (input exhausted, or the debug break):
\* a non-empty current_doc is processed and dumped, then the lexicon and the
\* document metadata are written and Ok(()) is returned.
Finish ==
    /\ \/ pc = "tail"
       \/ pc = "loop" /\ pos = Len(corpus)
    /\ LET rest(ix, sp, r, panic) ==
               \* dump_lexicon_to_disk, dump_doc_metadata_to_disk, Ok(())
               \E tio \in TailOutcomes :
                 /\ spill' = sp
                 /\ IF panic \/ tio = "lexicon_fail"
                    THEN UNCHANGED data
                    ELSE data' = [data EXCEPT !.lexicon = Present(WriteLexicon(ix.lexicon))]
                 /\ IF panic \/ tio # "ok"
                    THEN pc' = "panicked" /\ res' = [r EXCEPT !.process = "panic"]
                    ELSE pc' = "merge" /\ res' = [r EXCEPT !.process = "Ok"]
       IN IF current_doc = <<>>
          THEN /\ rest(indexer, spill, res, FALSE)
               /\ UNCHANGED <<indexer, acc_docs, clock>>
          ELSE LET ix1  == ProcessDocument(indexer, current_doc)
                   acc1 == acc_docs \cup {indexer.next_doc}
               IN \E io \in IoOutcomes, iter \in IterOrders(ix1.postings) :
                  \E ser \in Serializations(SortedPostings(iter)) :
                    LET d == DumpPostings(ix1, acc1, spill, clock, ser, io,
                                          build, "tail")
                    IN /\ indexer' = d.indexer
                       /\ acc_docs' = d.acc_docs
                       /\ clock' = clock + 1
                       /\ rest(d.indexer, d.spill,
                               [res EXCEPT !.flush = IF d.panic THEN "failed" ELSE "ok"],
                               d.panic)
    /\ UNCHANGED <<build, corpus, debug_mode, pos, current_doc, doc_count,
                   listing, answer, first>>

\* ----------------------------------------------------- external merge sort

Min(S) == CHOOSE x \in S : \A y \in S : x <= y

Max(S) == CHOOSE x \in S : \A y \in S : x >= y

\* The sub-lists the readers in at are positioned on, concatenated in
\* increasing file index from i on.
RECURSIVE ConcatHeads(_, _, _)
ConcatHeads(readers, at, i) ==
    IF i > Len(readers) THEN <<>>
    ELSE (IF i \in at THEN Head(readers[i])[2] ELSE <<>>)
         \o ConcatHeads(readers, at, i + 1)

\* external_sorter::merge_sorted_files (design 4.2): readers[i] is what is
\* left to read of file i.  The minimum token id is popped together with every
\* other reader positioned on it, the sub-lists are concatenated in increasing
\* file index without sorting, one record is written, the readers advance.
RECURSIVE KWayMerge(_, _)
KWayMerge(readers, out) ==
    LET open == {i \in 1..Len(readers) : readers[i] # <<>>}
    IN IF open = {} THEN out
       ELSE LET tid == Min({Head(readers[i])[1] : i \in open})
                at  == {i \in open : Head(readers[i])[1] = tid}
                adv == [i \in 1..Len(readers) |->
                          IF i \in at THEN Tail(readers[i]) ELSE readers[i]]
            IN KWayMerge(adv, Append(out, <<tid, ConcatHeads(readers, at, 1)>>))

MergeSortedFiles(files) == KWayMerge([i \in 1..Len(files) |-> files[i].recs], <<>>)

\* Lines 180 to 183: the entries in the order read_dir returns them (order),
\* those whose entry is an error (bad) dropped by filter_map(|e| e.ok()).
ListedFiles(order, bad) == SelectSeq(order, LAMBDA f : f \notin bad)

\* merge_sorted_postings (175 to 191), called from main (38 to 40), which
\* prints an error and goes on.  read_dir fails when the directory does not
\* exist, and may fail when it does; the listing order is arbitrary.  The merge
\* fails on a file it cannot deserialize.
Merge ==
    /\ pc = "merge"
    /\ \E listed \in BOOLEAN :
         IF ~listed \/ ~spill.exists
         THEN /\ listing' = [seen |-> spill.files, passed |-> <<>>, done |-> TRUE]
              /\ res' = [res EXCEPT !.merge = "Err"]
              /\ UNCHANGED data
         ELSE \E order \in Perms(spill.files), bad \in SUBSET spill.files :
                LET files == ListedFiles(order, bad)
                IN /\ listing' = [seen |-> spill.files, passed |-> files, done |-> TRUE]
                   /\ IF \E i \in 1..Len(files) : ~files[i].intact
                      THEN /\ res' = [res EXCEPT !.merge = "Err"]
                           /\ UNCHANGED data
                      ELSE /\ res' = [res EXCEPT !.merge = "Ok"]
                           /\ data' = [data EXCEPT
                                         !.merged = Present(MergeSortedFiles(files))]
    /\ pc' = "binindex"
    /\ UNCHANGED <<build, corpus, debug_mode, pos, current_doc, doc_count,
                   indexer, acc_docs, spill, clock, answer, first>>

\* ---------------------------------------------------- binary index builder

\* A postings list as bytes: document id, frequency, document id, ...
RECURSIVE Encode(_)
Encode(plist) ==
    IF plist = <<>> THEN <<>>
    ELSE <<Head(plist)[1], Head(plist)[2]>> \o Encode(Tail(plist))

RECURSIVE Decode(_)
Decode(bytes) ==
    IF Len(bytes) < 2 THEN <<>>
    ELSE <<<<bytes[1], bytes[2]>>>> \o Decode(SubSeq(bytes, 3, Len(bytes)))

\* bin_indexer::build_bin_index (design 4.3): one pass over the merged
\* stream; each list is encoded and appended to the blob, and a directory
\* entry (token id, offset, length) is recorded.
RECURSIVE BuildBlob(_, _)
BuildBlob(merged, ix) ==
    IF merged = <<>> THEN ix
    ELSE LET bytes == Encode(Head(merged)[2])
         IN BuildBlob(Tail(merged),
                      [ix EXCEPT !.blob = ix.blob \o bytes,
                                 !.directory = Append(ix.directory,
                                     <<Head(merged)[1], Len(ix.blob), Len(bytes)>>)])

BuildBinIndexFiles(merged, lexicon) ==
    BuildBlob(merged, [blob |-> <<>>, directory |-> <<>>, lexicon |-> lexicon])

AllOk(r) == r.cleanup = "Ok" /\ r.process = "Ok" /\ r.merge = "Ok" /\ r.binindex = "Ok"

\* Every phase of the run succeeded and no directory entry was dropped.
CleanBuild(r, l) == AllOk(r) /\ Range(l.passed) = l.seen

\* main, 43 to 46: build_bin_index over data/merged_postings.data and the
\* lexicon; an error (a missing input) is printed and main goes on.
BuildBinIndex ==
    /\ pc = "binindex"
    /\ IF data.merged.present /\ data.lexicon.present
       THEN /\ data' = [data EXCEPT !.index =
                          Present(BuildBinIndexFiles(data.merged.content,
                                                     data.lexicon.content))]
            /\ res' = [res EXCEPT !.binindex = "Ok"]
       ELSE /\ res' = [res EXCEPT !.binindex = "Err"]
            /\ UNCHANGED data
    /\ first' = IF ~first.present /\ CleanBuild(res', listing)
                THEN [present |-> TRUE, lexicon |-> data'.lexicon.content,
                      index |-> data'.index.content]
                ELSE first
    /\ pc' = "query"
    /\ UNCHANGED <<build, corpus, debug_mode, pos, current_doc, doc_count,
                   indexer, acc_docs, spill, clock, listing, answer>>

\* ---------------------------------------------------------- query processor

\* lookup_term: the token id of term in the index's lexicon, -1 when unknown.
LookupTerm(ix, term) ==
    LET hits == {i \in 1..Len(ix.lexicon) : ix.lexicon[i][1] = term}
    IN IF hits = {} THEN -1 ELSE ix.lexicon[Min(hits)][2]

\* postings_for_term: the directory entry of the token id, and the decoded
\* byte range of the blob; empty for an unknown term.
PostingsForTerm(ix, term) ==
    LET tid  == LookupTerm(ix, term)
        hits == {i \in 1..Len(ix.directory) : ix.directory[i][1] = tid}
    IN IF tid = -1 \/ hits = {} THEN <<>>
       ELSE LET e == ix.directory[Min(hits)]
            IN Decode(SubSeq(ix.blob, e[2] + 1, e[2] + e[3]))

DocIds(plist) == [i \in 1..Len(plist) |-> plist[i][1]]

\* The merge-join of design 4.4: the lists holding the smallest current
\* document id advance; an id that heads every list is in the result.
RECURSIVE MergeIntersect(_)
MergeIntersect(lists) ==
    IF \E i \in 1..Len(lists) : lists[i] = <<>> THEN <<>>
    ELSE LET heads == {Head(lists[i]) : i \in 1..Len(lists)}
             lo    == Min(heads)
             adv   == [i \in 1..Len(lists) |->
                         IF Head(lists[i]) = lo THEN Tail(lists[i]) ELSE lists[i]]
         IN IF lo = Max(heads) THEN <<lo>> \o MergeIntersect(adv)
            ELSE MergeIntersect(adv)

\* conjunctive_query: empty as soon as a term is unknown, else the
\* merge-intersection of the terms' document ids.
ConjunctiveQuery(ix, terms) ==
    IF \E i \in 1..Len(terms) : LookupTerm(ix, terms[i]) = -1 THEN <<>>
    ELSE MergeIntersect([i \in 1..Len(terms) |-> DocIds(PostingsForTerm(ix, terms[i]))])

QueryTerms == Terms \cup {Unknown}

\* main, 50 to 63: the query processor is opened on the index files and a
\* two-term conjunctive query is run.  Missing index files are a hard failure.
Query ==
    /\ pc = "query"
    /\ \E t1 \in QueryTerms, t2 \in QueryTerms :
         IF data.index.present
         THEN /\ answer' = [asked |-> <<t1, t2>>,
                            docs |-> ConjunctiveQuery(data.index.content, <<t1, t2>>),
                            outcome |-> "Ok"]
              /\ pc' = "done"
         ELSE /\ answer' = [asked |-> <<t1, t2>>, docs |-> <<>>, outcome |-> "IndexError"]
              /\ pc' = "panicked"
    /\ UNCHANGED <<build, corpus, debug_mode, pos, current_doc, doc_count,
                   indexer, acc_docs, spill, clock, data, res, listing, first>>

\* The program is run again over the same corpus: with the build of main's
\* lines 28 to 46, or as main stands, with the query alone.  The files stay.
Restart ==
    /\ pc \in {"done", "panicked"}
    /\ build < MaxBuilds
    /\ build' = build + 1
    /\ \E entry \in {"cleanup", "query"} : pc' = entry
    /\ pos' = 0
    /\ current_doc' = <<>>
    /\ doc_count' = 0
    /\ indexer' = NewIndexer
    /\ acc_docs' = {}
    /\ res' = NoRes
    /\ listing' = NoListing
    /\ answer' = NoAnswer
    /\ UNCHANGED <<corpus, debug_mode, spill, clock, data, first>>

Next == Cleanup \/ Open \/ ReadLine \/ Finish \/ Merge \/ BuildBinIndex \/ Query \/ Restart

Spec == Init /\ [][Next]_vars

\* The accumulation phase alone: one run of the program, from a spill
\* directory that does not exist yet, up to the return of process_gzip_file.
AccNext == Cleanup \/ Open \/ ReadLine \/ Finish

AccSpec == Init /\ [][AccNext]_vars

\* ------------------------------------------------------------- properties

StrictlyAscending(s) == \A i, j \in 1..Len(s) : i < j => s[i] < s[j]

RECURSIVE SetToSortedSeq(_)
SetToSortedSeq(S) ==
    IF S = {} THEN <<>> ELSE <<Min(S)>> \o SetToSortedSeq(S \ {Min(S)})

\* The spill files this run of the program wrote.
OwnFiles == {f \in spill.files : f.build = build}

\* The input holds complete documents only, each with at least one term: the
\* last line closes a document, and every closing line carries a term.
CompleteDocuments ==
    /\ corpus = <<>> \/ corpus[Len(corpus)].close
    /\ \A i \in 1..Len(corpus) : corpus[i].close => corpus[i].term # NoTerm

\* The document ids that occur in the postings a spill file holds.
DocsIn(f) == UNION {{f.recs[i][2][k][1] : k \in 1..Len(f.recs[i][2])} : i \in 1..Len(f.recs)}

\* C1: when process_gzip_file returns Ok on an input of complete documents,
\* the postings of every processed document are in exactly one spill file of
\* the run; and three documents with a threshold of two leave exactly two
\* spill files, holding two documents and one document.
C1_EveryDocumentSpilledOnce ==
    (res.process = "Ok" /\ CompleteDocuments) =>
        /\ \A d \in 0..(indexer.next_doc - 1) :
              Cardinality({f \in OwnFiles : d \in DocsIn(f)}) = 1
        /\ (indexer.next_doc = 3 /\ BATCH_SIZE = 2) =>
              /\ Cardinality(OwnFiles) = 2
              /\ {Cardinality(DocsIn(f)) : f \in OwnFiles} = {1, 2}

\* C2: when the merge is handed exactly the spill files of this run, in the
\* order the directory listing returned them, every token's merged postings
\* list is strictly ascending in document id (sorted, no duplicates).  Stated
\* for the runs in which every sub-list of every spill file is itself
\* ascending, so that only the order of the files is in question.
C2_MergedListsAscending ==
    (/\ res.process = "Ok"
     /\ res.merge = "Ok"
     /\ Range(listing.passed) = listing.seen
     /\ \A f \in listing.seen :
           /\ f.build = build
           /\ \A i \in 1..Len(f.recs) : StrictlyAscending(DocIds(f.recs[i][2]))) =>
        \A i \in 1..Len(data.merged.content) :
            StrictlyAscending(DocIds(data.merged.content[i][2]))

\* C3: the result of conjunctive_query("t1 t2") is the intersection of the
\* document ids of postings_for_term(t1) and postings_for_term(t2), in
\* ascending order, and it is empty (not an error) when a term is unknown.
C3_ConjunctiveIsIntersection ==
    answer.outcome = "Ok" =>
        LET ix == data.index.content
            d1 == Range(DocIds(PostingsForTerm(ix, answer.asked[1])))
            d2 == Range(DocIds(PostingsForTerm(ix, answer.asked[2])))
        IN answer.docs = SetToSortedSeq(d1 \cap d2)

\* C4: in every spill file, each token's postings sub-list is in ascending
\* document-id order.
C4_SublistsAscending ==
    \A f \in spill.files :
        f.intact => \A i \in 1..Len(f.recs) : StrictlyAscending(DocIds(f.recs[i][2]))

\* C5: a flush that cannot create the spill directory, or create or write the
\* spill file, ends with process_gzip_file returning Err to its caller, and in
\* no other way.
C5_FlushFailureReturnsErr ==
    res.flush = "failed" => res.process = "Err"

\* C6: merge_sorted_postings passes every spill file of the directory to the
\* merge or returns an error; no merged output comes from a proper subset.
C6_MergeTakesAllOrFails ==
    (listing.done /\ res.merge = "Ok") => Range(listing.passed) = listing.seen

\* C7: once the merge phase has completed, no spill file of that build is
\* left in the spill directory, and a merge never consumes a spill file that
\* an earlier build left.
C7_SpillFilesTransient ==
    /\ res.merge = "Ok" => OwnFiles = {}
    /\ listing.done => \A f \in Range(listing.passed) : f.build = build

\* C8: a second build of the same corpus with the same threshold leaves the
\* same lexicon and the same binary index (postings blob and directory) as
\* the first.  Stated for builds in which every phase succeeded and every
\* directory entry was read, so that only the iteration order of the hash
\* maps, the file names and the listing order differ between the two.
C8_RebuildIsIdentical ==
    (first.present /\ build > 1 /\ CleanBuild(res, listing)) =>
        /\ data.index.content = first.index
        /\ data.lexicon.content = first.lexicon

\* C9: every spill file that write_to_disk wrote completely is a sequence of
\* records strictly ascending in token id, holding each token id of the
\* accumulator exactly once.
C9_SpillSortedByTokenId ==
    \A f \in spill.files :
        f.intact =>
            /\ StrictlyAscending([i \in 1..Len(f.recs) |-> f.recs[i][1]])
            /\ {f.recs[i][1] : i \in 1..Len(f.recs)} = f.tokens

\* C9 witness: a spill file with two tokens was written.
C9_Witness == \E f \in spill.files : f.intact /\ Len(f.recs) >= 2

\* C10: the accumulator never holds more than BATCH_SIZE unspilled documents,
\* also when the trailing unterminated document is added after the loop, and
\* every spill the threshold triggered holds exactly BATCH_SIZE documents.
C10_AccumulatorBounded ==
    /\ Cardinality(acc_docs) <= BATCH_SIZE
    /\ \A f \in spill.files :
          /\ Cardinality(f.docs) <= BATCH_SIZE
          /\ f.cause = "threshold" => Cardinality(f.docs) = BATCH_SIZE

\* C10 witness: the trailing unterminated document filled the accumulator to
\* BATCH_SIZE documents and was spilled after the loop.
C10_Witness ==
    \E f \in spill.files :
        f.cause = "tail" /\ f.intact /\ Cardinality(f.docs) = BATCH_SIZE

====
